---- MODULE Spec2Model ----
(***************************************************************************)
(* Request lifecycle of the backend service: the LLM proxy handler         *)
(* (routes/llm.rs), the student handlers (routes/students.rs), the health  *)
(* probe (routes/health.rs) and the error mapper (error.rs), running as    *)
(* concurrent tasks over one store.                                        *)
(*                                                                         *)
(* Every handler is cut at its .await points: one action per segment of    *)
(* code that runs between two suspension points.  The store executes each  *)
(* SQL statement atomically; a statement's effect and the resumption of    *)
(* the handler that awaited it are one step.                               *)
(***************************************************************************)
EXTENDS Integers, Sequences, FiniteSets, TLC

VARIABLES
    requests,         \* one record per handler invocation, in arrival order
    students,         \* rows of table students
    ai_interactions   \* rows of table ai_interactions

vars == <<requests, students, ai_interactions>>

(***************************************************************************)
(* Bounds of the model.                                                    *)
(***************************************************************************)
MaxRequests == 2          \* handler invocations in the mixed specification
MaxStudentRequests == 4   \* handler invocations in the students specification

(***************************************************************************)
(* Option<T>: None is <<>>, Some(v) is <<v>>.                              *)
(***************************************************************************)
None == <<>>
Some(v) == <<v>>

(***************************************************************************)
(* serde_json::Value.  Every value has the same shape: k is the kind, s    *)
(* the text of a string (or the key of an object member), c the children.  *)
(* An object holds its members in the order of its text; the texts of the   *)
(* model list them in key order, so the map's ordering makes no difference.*)
(***************************************************************************)
JNull == [k |-> "null", s |-> "", c |-> <<>>]
JStr(s) == [k |-> "str", s |-> s, c |-> <<>>]
JArr(items) == [k |-> "arr", s |-> "", c |-> items]
Member(key, v) == [k |-> "member", s |-> key, c |-> <<v>>]
JObj(members) == [k |-> "obj", s |-> "", c |-> members]

is_object_or_array(v) == v.k \in {"obj", "arr"}

is_object(v) == v.k = "obj"

\* Value::get(key): the member's value for an object that has the key.
get(v, key) ==
    IF v.k = "obj" /\ \E i \in 1..Len(v.c) : v.c[i].s = key
    THEN Some((v.c[CHOOSE i \in 1..Len(v.c) : v.c[i].s = key]).c[1])
    ELSE None

\* Value's Display: compact JSON text.  The strings of the model hold no
\* character that JSON escapes.
RECURSIVE to_string(_)
RECURSIVE Join(_, _)
Join(items, i) ==
    IF i > Len(items) THEN ""
    ELSE (IF i > 1 THEN "," ELSE "") \o to_string(items[i]) \o Join(items, i + 1)

to_string(v) ==
    CASE v.k = "null" -> "null"
      [] v.k = "str" -> "\"" \o v.s \o "\""
      [] v.k = "arr" -> "[" \o Join(v.c, 1) \o "]"
      [] v.k = "obj" -> "{" \o Join(v.c, 1) \o "}"
      [] v.k = "member" -> "\"" \o v.s \o "\":" \o to_string(v.c[1])

(***************************************************************************)
(* Inputs of POST /llm/chat.                                               *)
(***************************************************************************)
ChatPayload ==
    JObj(<<Member("messages",
             JArr(<<JObj(<<Member("content", JStr("hi")),
                           Member("role", JStr("user"))>>)>>))>>)
PlainPayload == JObj(<<Member("model", JStr("m"))>>)
ArrayPayload == JArr(<<JStr("hi")>>)

LlmProxyRequests ==
    { [user_id |-> None, student_id |-> None, payload |-> ChatPayload],
      [user_id |-> Some(1), student_id |-> Some(2), payload |-> PlainPayload],
      [user_id |-> Some(1), student_id |-> None, payload |-> ArrayPayload],
      [user_id |-> None, student_id |-> None, payload |-> JNull] }

(***************************************************************************)
(* The upstream LLM service: what one POST to it can come back with.       *)
(***************************************************************************)
CompletionJson == JObj(<<Member("choices", JArr(<<>>)), Member("id", JStr("x"))>>)
ErrorJson == JObj(<<Member("error", JStr("boom"))>>)

UpstreamStatuses == {200, 201, 404, 500}

UpstreamBodies ==
    { "{\"choices\":[],\"id\":\"x\"}",
      "{ \"error\": \"boom\" }",
      "<html>Bad Gateway</html>",
      "" }

\* Response::json(): the body read whole and parsed; None when it is no JSON.
json(raw) ==
    CASE raw = "{\"choices\":[],\"id\":\"x\"}" -> Some(CompletionJson)
      [] raw = "{ \"error\": \"boom\" }" -> Some(ErrorJson)
      [] OTHER -> None

is_success_any(status) == TRUE

\* StatusCode::is_success
is_success(status) == status >= 200 /\ status < 300

(***************************************************************************)
(* AppError and its response.                                              *)
(***************************************************************************)
Db == [variant |-> "Db", detail |-> ""]
HttpClient == [variant |-> "HttpClient", detail |-> ""]
Upstream(detail) == [variant |-> "Upstream", detail |-> detail]
BadRequest(detail) == [variant |-> "BadRequest", detail |-> detail]

\* #[error(...)] of each variant
Display(err) ==
    CASE err.variant = "Db" -> "database error"
      [] err.variant = "HttpClient" -> "http client error"
      [] err.variant = "Upstream" -> "upstream llm error: " \o err.detail
      [] err.variant = "BadRequest" -> "bad request: " \o err.detail

StatusOfUpstreamAs500(err) ==
    CASE err.variant = "BadRequest" -> 400
      [] OTHER -> 500

StatusOfDbAs502(err) ==
    CASE err.variant = "BadRequest" -> 400
      [] err.variant \in {"Upstream", "Db"} -> 502
      [] OTHER -> 500

StatusOf(err) ==
    CASE err.variant = "BadRequest" -> 400
      [] err.variant = "Upstream" -> 502
      [] err.variant \in {"Db", "HttpClient"} -> 500

into_response(err) ==
    [status |-> StatusOf(err), kind |-> err.variant, body |-> [error |-> Display(err)]]

\* Ok(Json(value))
Ok(value) == [status |-> 200, kind |-> "Ok", body |-> value]

(***************************************************************************)
(* Handler invocations.                                                    *)
(***************************************************************************)
NoLocal == [response |-> None, upstream_json |-> None,
            prompt_text |-> None, response_text |-> None]

NewRequest(route, body, pc, resp, calls) ==
    [route |-> route, body |-> body, pc |-> pc, local |-> NoLocal, resp |-> resp,
     calls |-> calls,     \* upstream POSTs this invocation has issued
     inserts |-> 0,       \* INSERT statements this invocation has issued
     row |-> None]        \* id of the row its INSERT created

Return(i, response) ==
    requests' = [requests EXCEPT ![i].pc = "done", ![i].resp = Some(response)]

\* The id the store gives a new row: one more than the largest in the table.
NextId(table) ==
    IF table = {} THEN 1
    ELSE (CHOOSE r \in table : \A q \in table : q.id <= r.id).id + 1

Init ==
    /\ requests = <<>>
    /\ students = {}
    /\ ai_interactions = {}

\* The listener takes another request while fewer than cap have arrived.
Accept(cap) == Len(requests) < cap

(***************************************************************************)
(* POST /llm/chat: proxy_chat_completion.                                  *)
(***************************************************************************)
Failed(err) == [err |-> Some(err), value |-> None]
Passed(value) == [err |-> None, value |-> Some(value)]

\* The status is looked at before the body is decoded.
interpret_status_first(status, raw) ==
    IF ~is_success(status) THEN Failed(Upstream(raw))
    ELSE IF json(raw) = None THEN Failed(HttpClient)
    ELSE Passed(json(raw)[1])

\* llm.rs 42-47: decode the body, then look at the status.
interpret(status, raw) ==
    IF json(raw) = None THEN Failed(HttpClient)
    ELSE IF ~is_success(status) THEN Failed(Upstream(to_string(json(raw)[1])))
    ELSE Passed(json(raw)[1])

\* llm.rs 49-53
prompt_text(payload) ==
    IF get(payload, "messages") # None
    THEN to_string(get(payload, "messages")[1])
    ELSE to_string(payload)

interaction_row_swapped(id, body, local) ==
    [id |-> id, user_id |-> body.student_id, student_id |-> body.user_id,
     prompt |-> local.response_text[1], response |-> local.prompt_text[1]]

\* llm.rs 57-68: the row the INSERT binds.
interaction_row(id, body, local) ==
    [id |-> id, user_id |-> body.user_id, student_id |-> body.student_id,
     prompt |-> local.prompt_text[1], response |-> local.response_text[1]]

\* llm.rs 23-40: validate, then issue the upstream POST and await it.
proxy_chat_completion(body) ==
    /\ requests' = Append(requests,
          IF ~is_object(body.payload)
          THEN NewRequest("llm_chat", body, "done",
                 Some(into_response(BadRequest("payload must be a JSON object"))), 0)
          ELSE NewRequest("llm_chat", body, "send", None, 1))
    /\ UNCHANGED <<students, ai_interactions>>

\* A transport failure comes back again as a second attempt.
send_returns_retrying(i) ==
    /\ requests[i].route = "llm_chat" /\ requests[i].pc = "send"
    /\ \/ IF requests[i].calls < 2
          THEN requests' = [requests EXCEPT ![i].calls = @ + 1]
          ELSE Return(i, into_response(HttpClient))
       \/ \E status \in UpstreamStatuses, raw \in UpstreamBodies :
            requests' = [requests EXCEPT
                ![i].pc = "json",
                ![i].local.response = Some([status |-> status, raw |-> raw])]
    /\ UNCHANGED <<students, ai_interactions>>

\* llm.rs 40-43: send() returns; the status is kept and the body awaited.
send_returns(i) ==
    /\ requests[i].route = "llm_chat" /\ requests[i].pc = "send"
    /\ \/ Return(i, into_response(HttpClient))
       \/ \E status \in UpstreamStatuses, raw \in UpstreamBodies :
            requests' = [requests EXCEPT
                ![i].pc = "json",
                ![i].local.response = Some([status |-> status, raw |-> raw])]
    /\ UNCHANGED <<students, ai_interactions>>

\* llm.rs 43-68: the body is in; interpret it, derive the texts, issue the INSERT.
json_returns(i) ==
    /\ requests[i].route = "llm_chat" /\ requests[i].pc = "json"
    /\ LET response == requests[i].local.response[1]
           got == interpret(response.status, response.raw)
       IN IF got.err # None
          THEN Return(i, into_response(got.err[1]))
          ELSE requests' = [requests EXCEPT
                 ![i].pc = "execute",
                 ![i].inserts = @ + 1,
                 ![i].local.upstream_json = got.value,
                 ![i].local.prompt_text = Some(prompt_text(requests[i].body.payload)),
                 ![i].local.response_text = Some(to_string(got.value[1]))]
    /\ UNCHANGED <<students, ai_interactions>>

\* llm.rs 68-72: the INSERT returns; on success the upstream body is the answer.
execute_returns(i) ==
    /\ requests[i].route = "llm_chat" /\ requests[i].pc = "execute"
    /\ \/ /\ Return(i, into_response(Db))
          /\ UNCHANGED ai_interactions
       \/ LET id == NextId(ai_interactions) IN
          /\ ai_interactions' = ai_interactions \cup
                {interaction_row(id, requests[i].body, requests[i].local)}
          /\ requests' = [requests EXCEPT
                ![i].pc = "done",
                ![i].row = Some(id),
                ![i].resp = Some(Ok([upstream |-> requests[i].local.upstream_json[1]]))]
    /\ UNCHANGED students

(***************************************************************************)
(* /students: create_student and list_students.  A name is a sequence of   *)
(* characters.  created_at, which the store fills in, is left out.         *)
(***************************************************************************)
WhiteSpace == {" ", "\t"}

CreateStudentRequests ==
    { [name |-> <<>>, grade_level |-> None],
      [name |-> <<" ", "\t">>, grade_level |-> Some("K")],
      [name |-> <<" ", "a", " ", "b", "\t">>, grade_level |-> Some("K")],
      [name |-> <<"c">>, grade_level |-> None] }

RECURSIVE trim_start(_)
trim_start(s) ==
    IF s # <<>> /\ Head(s) \in WhiteSpace THEN trim_start(Tail(s)) ELSE s

RECURSIVE trim_end(_)
trim_end(s) ==
    IF s # <<>> /\ s[Len(s)] \in WhiteSpace
    THEN trim_end(SubSeq(s, 1, Len(s) - 1))
    ELSE s

\* str::trim
trim(s) == trim_end(trim_start(s))

name_is_missing(name) == name = <<>>

\* students.rs 34
name_is_blank(name) == trim(name) = <<>>

bound_name_untrimmed(name) == name

\* students.rs 45: the name the INSERT binds
bound_name(name) == trim(name)

\* students.rs 30-48: validate, then issue the INSERT and await it.
create_student(body) ==
    /\ requests' = Append(requests,
          IF name_is_blank(body.name)
          THEN NewRequest("create_student", body, "done",
                 Some(into_response(BadRequest("name is required"))), 0)
          ELSE [NewRequest("create_student", body, "fetch_one", None, 0)
                  EXCEPT !.inserts = 1])
    /\ UNCHANGED <<students, ai_interactions>>

\* students.rs 48-50: INSERT ... RETURNING comes back.
fetch_one_returns(i) ==
    /\ requests[i].route = "create_student" /\ requests[i].pc = "fetch_one"
    /\ \/ /\ Return(i, into_response(Db))
          /\ UNCHANGED students
       \/ LET created == [id |-> NextId(students),
                          name |-> bound_name(requests[i].body.name),
                          grade_level |-> requests[i].body.grade_level] IN
          /\ students' = students \cup {created}
          /\ requests' = [requests EXCEPT
                ![i].pc = "done",
                ![i].row = Some(created.id),
                ![i].resp = Some(Ok(created))]
    /\ UNCHANGED ai_interactions

RECURSIVE order_by_id_desc(_)
order_by_id_desc(rows) ==
    IF rows = {} THEN <<>>
    ELSE LET last == CHOOSE r \in rows : \A q \in rows : q.id <= r.id
         IN <<last>> \o order_by_id_desc(rows \ {last})

\* SELECT ... FROM students ORDER BY id ASC
RECURSIVE order_by_id_asc(_)
order_by_id_asc(rows) ==
    IF rows = {} THEN <<>>
    ELSE LET first == CHOOSE r \in rows : \A q \in rows : r.id <= q.id
         IN <<first>> \o order_by_id_asc(rows \ {first})

\* students.rs 20-25: issue the SELECT and await it.
list_students ==
    /\ requests' = Append(requests, NewRequest("list_students", None, "fetch_all", None, 0))
    /\ UNCHANGED <<students, ai_interactions>>

\* students.rs 25-27: the SELECT comes back.
fetch_all_returns(i) ==
    /\ requests[i].route = "list_students" /\ requests[i].pc = "fetch_all"
    /\ \/ Return(i, into_response(Db))
       \/ Return(i, Ok(order_by_id_asc(students)))
    /\ UNCHANGED <<students, ai_interactions>>

(***************************************************************************)
(* GET /healthz.                                                           *)
(***************************************************************************)
\* health.rs 9-11: no await, answered in the step that takes it in.
healthz ==
    /\ requests' = Append(requests,
          NewRequest("healthz", None, "done", Some(Ok([status |-> "ok"])), 0))
    /\ UNCHANGED <<students, ai_interactions>>

(***************************************************************************)
(* The service: any interleaving of the routes' handlers.                  *)
(***************************************************************************)
Next ==
    \/ Accept(MaxRequests) /\ healthz
    \/ \E body \in LlmProxyRequests : Accept(MaxRequests) /\ proxy_chat_completion(body)
    \/ \E body \in CreateStudentRequests : Accept(MaxRequests) /\ create_student(body)
    \/ Accept(MaxRequests) /\ list_students
    \/ \E i \in DOMAIN requests : send_returns(i)
    \/ \E i \in DOMAIN requests : json_returns(i)
    \/ \E i \in DOMAIN requests : execute_returns(i)
    \/ \E i \in DOMAIN requests : fetch_one_returns(i)
    \/ \E i \in DOMAIN requests : fetch_all_returns(i)

Spec == Init /\ [][Next]_vars

\* /students alone, with room for three creates around a list.
NextStudents ==
    \/ \E body \in CreateStudentRequests :
          Accept(MaxStudentRequests) /\ create_student(body)
    \/ Accept(MaxStudentRequests) /\ list_students
    \/ \E i \in DOMAIN requests : fetch_one_returns(i)
    \/ \E i \in DOMAIN requests : fetch_all_returns(i)

SpecStudents == Init /\ [][NextStudents]_vars

(***************************************************************************)
(* Properties.  What a handler saw and did is read off its record: local   *)
(* holds the upstream response it got, calls and inserts what it issued,   *)
(* row the id its INSERT created, resp the response it returned.           *)
(***************************************************************************)
Proxy == {i \in DOMAIN requests : requests[i].route = "llm_chat"}
Creates == {i \in DOMAIN requests : requests[i].route = "create_student"}
Lists == {i \in DOMAIN requests : requests[i].route = "list_students"}

Done(i) == requests[i].pc = "done"
Answer(i) == requests[i].resp[1]
Answered(i, status, kind) ==
    /\ Done(i)
    /\ Len(requests[i].resp) = 1
    /\ Answer(i).status = status
    /\ Answer(i).kind = kind

\* The upstream answered request i (the transport did not fail).
UpstreamAnswered(i) == requests[i].local.response # None
UpstreamStatus(i) == requests[i].local.response[1].status
UpstreamRaw(i) == requests[i].local.response[1].raw
SuccessStatus(i) == UpstreamStatus(i) \in 200..299
Decodable(i) == json(UpstreamRaw(i)) # None
UpstreamJson(i) == json(UpstreamRaw(i))[1]

RowsFor(i) == {r \in ai_interactions : requests[i].row = Some(r.id)}

\* Request i is in the step that answers it.
Answers(i) == requests[i].pc # "done" /\ requests'[i].pc = "done"
\* The step takes in a new request, which is requests'[Len(requests')].
Arrives == Len(requests') = Len(requests) + 1

(* C1: every ai_interactions row belongs to exactly one proxy request,     *)
(* whose upstream status was a success and whose INSERT went through; each *)
(* proxy request answered with success has exactly one row; a row, once    *)
(* in the table, stays there unchanged.                                    *)
C1_RowIffSuccess ==
    /\ [](/\ \A r \in ai_interactions :
               /\ Cardinality({i \in Proxy : requests[i].row = Some(r.id)}) = 1
               /\ Cardinality({q \in ai_interactions : q.id = r.id}) = 1
               /\ \A i \in Proxy : requests[i].row = Some(r.id) =>
                     /\ UpstreamAnswered(i) /\ SuccessStatus(i)
                     /\ requests[i].calls = 1 /\ requests[i].inserts = 1
          /\ \A i \in Proxy :
               /\ requests[i].row # None => Cardinality(RowsFor(i)) = 1
               /\ (Done(i) /\ Answer(i).kind = "Ok") => Cardinality(RowsFor(i)) = 1)
    /\ [][\A r \in ai_interactions : r \in ai_interactions']_vars

C1_Witness ==
    /\ Cardinality(ai_interactions) = 2
    /\ \A i \in 1..2 : i \in Proxy /\ Answered(i, 200, "Ok")

(* C2 as claimed: every proxy request whose upstream answered with a       *)
(* non-success status ends with UpstreamRejected, status 502, the detail   *)
(* being the serialized upstream body, and has no row.                     *)
C2_AsClaimed ==
    \A i \in Proxy :
        (Done(i) /\ UpstreamAnswered(i) /\ ~SuccessStatus(i)) =>
            /\ Answered(i, 502, "Upstream")
            /\ Decodable(i)
            /\ Answer(i).body = [error |-> "upstream llm error: " \o to_string(UpstreamJson(i))]
            /\ requests[i].row = None

(* C2 amended: every proxy request whose upstream answered with a          *)
(* non-success status and a body that decodes as JSON ends with            *)
(* UpstreamRejected, status 502, the detail being the serialized decoded   *)
(* body; no INSERT is issued and no row exists for it.                     *)
C2_RejectedWhenDecodable ==
    \A i \in Proxy :
        (UpstreamAnswered(i) /\ ~SuccessStatus(i) /\ Decodable(i)
            /\ requests[i].pc # "json") =>
            /\ Answered(i, 502, "Upstream")
            /\ Answer(i).body = [error |-> "upstream llm error: " \o to_string(UpstreamJson(i))]
            /\ requests[i].inserts = 0
            /\ requests[i].row = None

C2_Witness ==
    \E i \in Proxy :
        /\ Answered(i, 502, "Upstream")
        /\ UpstreamStatus(i) = 500
        /\ UpstreamRaw(i) = "{ \"error\": \"boom\" }"
        /\ Answer(i).body.error = "upstream llm error: {\"error\":\"boom\"}"
        /\ ai_interactions = {}

(* C3: a proxy request with an object payload, a success upstream status   *)
(* and a decodable body, whose INSERT succeeds, is answered 200 with       *)
(* `upstream` the decoded body; it has exactly one row, which carries its  *)
(* user_id and student_id and the body's string form as `response`; the    *)
(* step that answers it adds exactly that one row, so no success answer    *)
(* exists without its row.                                                 *)
C3_SuccessPersistsThenAnswers ==
    /\ [](\A i \in Proxy :
            /\ (Done(i) /\ is_object(requests[i].body.payload) /\ UpstreamAnswered(i)
                  /\ SuccessStatus(i) /\ Decodable(i) /\ Answer(i).kind # "Db") =>
                 /\ Answered(i, 200, "Ok")
                 /\ Answer(i).body = [upstream |-> UpstreamJson(i)]
                 /\ Cardinality(RowsFor(i)) = 1
                 /\ \A r \in RowsFor(i) :
                      /\ r.user_id = requests[i].body.user_id
                      /\ r.student_id = requests[i].body.student_id
                      /\ r.response = to_string(UpstreamJson(i))
            /\ (Len(requests[i].resp) = 1 /\ Answer(i).status = 200) =>
                 /\ is_object(requests[i].body.payload)
                 /\ UpstreamAnswered(i) /\ SuccessStatus(i) /\ Decodable(i)
                 /\ RowsFor(i) # {})
    /\ [][\A i \in Proxy :
            (Answers(i) /\ requests'[i].resp[1].kind = "Ok") =>
                /\ Cardinality(ai_interactions') = Cardinality(ai_interactions) + 1
                /\ ai_interactions' \ ai_interactions =
                     {r \in ai_interactions' : requests'[i].row = Some(r.id)}]_vars

C3_Witness ==
    \E i, j \in Proxy :
        /\ i # j
        /\ Answered(i, 200, "Ok")
        /\ requests[i].body.payload = ChatPayload
        /\ UpstreamRaw(i) = "{\"choices\":[],\"id\":\"x\"}"
        /\ Answer(i).body.upstream = CompletionJson
        /\ \E r \in RowsFor(i) :
              r.response = "{\"choices\":[],\"id\":\"x\"}" /\ r.user_id = None
        /\ Answered(j, 200, "Ok")
        /\ \E r \in RowsFor(j) : r.user_id = Some(1) /\ r.student_id = Some(2)

(* C4: a proxy request whose payload is not a JSON object is answered 400  *)
(* InvalidRequest in the step that takes it in: it issues no upstream call *)
(* and no INSERT, and that step leaves ai_interactions as it was.          *)
C4_NonObjectRejectedFirst ==
    /\ [](\A i \in Proxy :
            requests[i].body.payload.k # "obj" =>
                /\ Answered(i, 400, "BadRequest")
                /\ requests[i].calls = 0
                /\ requests[i].inserts = 0
                /\ ~UpstreamAnswered(i)
                /\ requests[i].row = None)
    /\ [][(Arrives /\ requests'[Len(requests')].route = "llm_chat"
            /\ requests'[Len(requests')].body.payload.k # "obj") =>
              ai_interactions' = ai_interactions]_vars

C4_Witness ==
    /\ Len(requests) = 2
    /\ ai_interactions # {}
    /\ requests[2].route = "llm_chat"
    /\ requests[2].body.payload = ArrayPayload
    /\ Answered(2, 400, "BadRequest")

(* C5: a proxy request whose upstream call came back with a success status *)
(* and whose INSERT failed is answered 500 with the Database error, not    *)
(* the upstream body; it has no row, its one upstream call stands, and     *)
(* from then on it issues neither another upstream call nor another INSERT.*)
C5_InsertFailureSurfaces ==
    /\ [](\A i \in Proxy :
            (Done(i) /\ requests[i].inserts > 0 /\ requests[i].row = None) =>
                /\ UpstreamAnswered(i) /\ SuccessStatus(i)
                /\ Answered(i, 500, "Db")
                /\ Answer(i).body = [error |-> "database error"]
                /\ RowsFor(i) = {}
                /\ requests[i].calls = 1
                /\ requests[i].inserts = 1)
    /\ [][\A i \in Proxy :
            (Done(i) /\ Answer(i).kind = "Db") =>
                /\ requests'[i].calls = requests[i].calls
                /\ requests'[i].inserts = requests[i].inserts
                /\ requests'[i].resp = requests[i].resp]_vars

C5_Witness ==
    \E i \in Proxy :
        /\ Answered(i, 500, "Db")
        /\ SuccessStatus(i) /\ Decodable(i)
        /\ requests[i].calls = 1
        /\ ai_interactions = {}
        /\ Len(requests) = 2

(* C6: a proxy request whose upstream call failed in transport, or whose   *)
(* upstream body does not decode, is answered 500 with the                 *)
(* UpstreamClientFailure error whatever the upstream status, and issues no *)
(* INSERT.                                                                 *)
C6_ClientFailure ==
    \A i \in Proxy :
        (Done(i) /\ requests[i].calls > 0
            /\ (~UpstreamAnswered(i) \/ ~Decodable(i))) =>
            /\ Answered(i, 500, "HttpClient")
            /\ Answer(i).body = [error |-> "http client error"]
            /\ requests[i].inserts = 0
            /\ requests[i].row = None

C6_Witness ==
    \E i, j \in Proxy :
        /\ Answered(i, 500, "HttpClient") /\ ~UpstreamAnswered(i)
        /\ Answered(j, 500, "HttpClient") /\ UpstreamAnswered(j)
        /\ UpstreamStatus(j) = 404 /\ UpstreamRaw(j) = "<html>Bad Gateway</html>"

(* C10: a proxy request only moves forward through send, json, execute,    *)
(* done; it issues at most one upstream call and at most one INSERT, the   *)
(* INSERT only after a success status; while unanswered it always has its  *)
(* next step to take, and once answered it never changes, so it ends with  *)
(* one response, of one of the five kinds.                                 *)
Stage(pc) ==
    CASE pc = "send" -> 1
      [] pc = "json" -> 2
      [] pc = "execute" -> 3
      [] pc = "done" -> 4

C10_LinearPipeline ==
    /\ [](\A i \in Proxy :
            /\ requests[i].calls \in {0, 1}
            /\ requests[i].inserts \in {0, 1}
            /\ requests[i].inserts = 1 =>
                 requests[i].calls = 1 /\ UpstreamAnswered(i) /\ SuccessStatus(i)
            /\ Stage(requests[i].pc) >= 2 /\ requests[i].pc # "done" =>
                 requests[i].calls = 1
            /\ requests[i].pc = "execute" => requests[i].inserts = 1
            /\ Done(i) <=> Len(requests[i].resp) = 1
            /\ Len(requests[i].resp) <= 1
            /\ ~Done(i) =>
                 ENABLED (send_returns(i) \/ json_returns(i) \/ execute_returns(i))
            /\ Done(i) =>
                 Answer(i).kind \in {"Ok", "Db", "HttpClient", "Upstream", "BadRequest"})
    /\ [][\A i \in Proxy :
            \/ requests'[i] = requests[i]
            \/ Stage(requests'[i].pc) > Stage(requests[i].pc)]_vars

C10_Witness ==
    \E i, j \in Proxy :
        /\ Answered(i, 200, "Ok") /\ requests[i].calls = 1 /\ requests[i].inserts = 1
        /\ Answered(j, 502, "Upstream") /\ requests[j].calls = 1 /\ requests[j].inserts = 0

(***************************************************************************)
(* Properties of /students, under SpecStudents.                            *)
(***************************************************************************)
AllWhiteSpace(s) == \A k \in 1..Len(s) : s[k] \in WhiteSpace

\* t is s without its leading and trailing white space.
IsTrimOf(t, s) ==
    /\ t = <<>> \/ (t[1] \notin WhiteSpace /\ t[Len(t)] \notin WhiteSpace)
    /\ \E a \in 0..Len(s) :
          /\ a + Len(t) <= Len(s)
          /\ SubSeq(s, a + 1, a + Len(t)) = t
          /\ AllWhiteSpace(SubSeq(s, 1, a))
          /\ AllWhiteSpace(SubSeq(s, a + Len(t) + 1, Len(s)))

InList(record, list) == \E k \in 1..Len(list) : list[k] = record

(* C7: a create whose trimmed name is not empty and whose INSERT succeeds  *)
(* returns a record whose name is the input without its surrounding white  *)
(* space; the step that creates it gives it an id above every id in the    *)
(* table; every list answered after the create returned holds the record.  *)
C7_CreateReturnsTrimmedFreshRecord ==
    /\ [](\A i \in Creates :
            (Done(i) /\ Answer(i).kind = "Ok") =>
                /\ Answer(i).status = 200
                /\ ~AllWhiteSpace(requests[i].body.name)
                /\ IsTrimOf(Answer(i).body.name, requests[i].body.name)
                /\ Answer(i).body.grade_level = requests[i].body.grade_level
                /\ Answer(i).body \in students
                /\ \A j \in Creates :
                      (j # i /\ Done(j) /\ Answer(j).kind = "Ok") =>
                          Answer(j).body.id # Answer(i).body.id)
    /\ [][\A i \in Creates :
            (Answers(i) /\ requests'[i].resp[1].kind = "Ok") =>
                /\ \A s \in students : s.id < requests'[i].resp[1].body.id
                /\ students' = students \cup {requests'[i].resp[1].body}]_vars
    /\ [][\A j \in Lists :
            (Answers(j) /\ requests'[j].resp[1].kind = "Ok") =>
                \A i \in Creates :
                    (Done(i) /\ Answer(i).kind = "Ok") =>
                        InList(Answer(i).body, requests'[j].resp[1].body)]_vars

C7_Witness ==
    \E i, h \in Creates, j \in Lists :
        /\ i < h /\ h < j
        /\ Answered(i, 200, "Ok") /\ Answered(h, 200, "Ok") /\ Answered(j, 200, "Ok")
        /\ requests[i].body.name = <<" ", "a", " ", "b", "\t">>
        /\ Answer(i).body.name = <<"a", " ", "b">>
        /\ Answer(i).body.id > Answer(h).body.id
        /\ InList(Answer(i).body, Answer(j).body)

(* C8: a create whose name is empty once its surrounding white space is    *)
(* gone is answered 400 InvalidRequest in the step that takes it in; it    *)
(* issues no INSERT, and that step leaves the students table as it was.    *)
C8_BlankNameRejected ==
    /\ [](\A i \in Creates :
            AllWhiteSpace(requests[i].body.name) =>
                /\ Answered(i, 400, "BadRequest")
                /\ Answer(i).body = [error |-> "bad request: name is required"]
                /\ requests[i].inserts = 0
                /\ requests[i].row = None)
    /\ [][(Arrives /\ requests'[Len(requests')].route = "create_student"
            /\ AllWhiteSpace(requests'[Len(requests')].body.name)) =>
              students' = students]_vars

C8_Witness ==
    \E h, k \in Lists, i \in Creates :
        /\ h < i /\ i < k
        /\ requests[i].body.name = <<" ", "\t">>
        /\ Answered(i, 400, "BadRequest")
        /\ Answered(h, 200, "Ok") /\ Answered(k, 200, "Ok")
        /\ Answer(h).body = Answer(k).body
        /\ Len(Answer(h).body) = 1

(* C9: the list a successful list-students answers with holds exactly the  *)
(* rows of the students table at the step of the query, each once, in      *)
(* strictly ascending id order, however the creates interleaved.           *)
C9_ListIsTableAscending ==
    [][\A j \in Lists :
         (Answers(j) /\ requests'[j].resp[1].kind = "Ok") =>
             LET list == requests'[j].resp[1].body IN
             /\ requests'[j].resp[1].status = 200
             /\ {list[k] : k \in 1..Len(list)} = students
             /\ Len(list) = Cardinality(students)
             /\ \A k \in 1..(Len(list) - 1) : list[k].id < list[k + 1].id]_vars

\* Three creates in flight together, committed in another order than they
\* arrived in, and then listed.
C9_Witness ==
    \E j \in Lists :
        /\ Answered(j, 200, "Ok")
        /\ Len(Answer(j).body) = 3
        /\ \A i \in 1..3 : i \in Creates /\ Answered(i, 200, "Ok")
        /\ Answer(1).body.id = 2 /\ Answer(2).body.id = 3 /\ Answer(3).body.id = 1
        /\ Answer(j).body = <<Answer(3).body, Answer(1).body, Answer(2).body>>

====
